---- MODULE Spec2Model ----
(***************************************************************************)
(* chomp: the parser combinators of src/combinators/mod.rs.                *)
(*                                                                         *)
(* A call of a combinator is modelled as a small state machine: the call   *)
(* fixes the input view and the sub-parsers, every invocation of a         *)
(* sub-parser is one step whose outcome is drawn from the outcomes the     *)
(* sub-parser can produce on the current view, and the last step stores    *)
(* the combinator's result.                                                *)
(***************************************************************************)
EXTENDS Integers, Sequences, FiniteSets

\* ------------------------------------------------------------------ bounds

\* Longest input buffer handed to a combinator.
MaxLen == 3
\* Largest hint an arbitrary sub-parser puts in Incomplete.
MaxHint == 2
\* Largest number of invocations of a repetition's parser that is followed
\* beyond one per token of the input: the invocations that did not advance.
MaxIter == 2
\* Largest num given to count.
MaxCount == 2
\* Largest number of calls of parse made after a terminal outcome.
MaxAgain == 2

\* ------------------------------------------------------------- input view

\* The token alphabet of the modelled inputs.
Tokens == {"a", ";"}

Buffers == UNION {[1..n -> Tokens] : n \in 0..MaxLen}

\* primitives::input::new(flags, buffer): a buffer and the END_OF_INPUT flag.
new(eoi, buf) == [buf |-> buf, eoi |-> eoi]

Inputs == {new(e, b) : e \in BOOLEAN, b \in Buffers}

\* The slice b[n..].
Drop(b, n) == SubSeq(b, n + 1, Len(b))

\* The slice b[..n].
Take(b, n) == SubSeq(b, 1, n)

\* i.replace(b): the view i over the slice b, flags kept.
replace(i, b) == [buf |-> b, eoi |-> i.eoi]

\* ---------------------------------------------------------- parse outcome

\* i.ret(v): State::Data(i, v).
ret(i, v) == [tag |-> "Data", rest |-> i, val |-> v]

\* i.err(e): State::Error(i.buffer(), e).
err(i, e) == [tag |-> "Error", at |-> i.buf, err |-> e]

\* i.incomplete(n): State::Incomplete(n).
incomplete(n) == [tag |-> "Incomplete", n |-> n]

NoOutcome == [tag |-> "None"]

IsData(o) == o.tag = "Data"
IsError(o) == o.tag = "Error"
IsIncomplete(o) == o.tag = "Incomplete"

\* Tokens a failure consumed before failing, from the view it started on.
Consumed(i, o) == Len(i.buf) - Len(o.at)

\* ------------------------------------------------------------ sub-parsers

\* |i| token(i, c)
Token(c) == [k |-> "token", c |-> c]
\* any
AnyTok == [k |-> "any", c |-> "-"]
\* An arbitrary closure FnMut(Input) -> ParseResult, named c.
Free(c) == [k |-> "free", c |-> c]

\* token(i, c) as the tests of the combinators exercise it.
token(i, c) ==
    IF Len(i.buf) = 0 THEN incomplete(1)
    ELSE IF Head(i.buf) = c THEN ret(replace(i, Tail(i.buf)), c)
    ELSE err(i, <<"Expected", c>>)

\* any(i) as the tests of the combinators exercise it.
any(i) ==
    IF Len(i.buf) = 0 THEN incomplete(1)
    ELSE ret(replace(i, Tail(i.buf)), Head(i.buf))

\* Every outcome a closure can return on the view i: success or failure after
\* any number of tokens, or Incomplete with any hint.
FreeOutcomes(i, c) ==
    {ret(replace(i, Drop(i.buf, n)), c) : n \in 0..Len(i.buf)}
    \cup {err(replace(i, Drop(i.buf, n)), <<"Custom", c>>) : n \in 0..Len(i.buf)}
    \cup {incomplete(h) : h \in 1..MaxHint}

\* The outcomes of one invocation of the sub-parser f on the view i.
Run(f, i) ==
    CASE f.k = "token" -> {token(i, f.c)}
      [] f.k = "any"   -> {any(i)}
      [] f.k = "free"  -> FreeOutcomes(i, f.c)

ItemParsers == {Token("a"), AnyTok, Free("f")}
OtherParsers == {Token(";"), Free("g")}

\* One invocation of a sub-parser: the view it ran on and what it returned.
Call(i, o) == [from |-> i, out |-> o]
NoCall == [from |-> new(FALSE, <<>>), out |-> NoOutcome]

\* ------------------------------------------------- non-repeating combinators

\* option yielding the default at the view f stopped on.
option_keeps_position(i, rf, default) ==
    CASE IsData(rf)       -> ret(i, rf.val)
      [] IsError(rf)      -> ret(replace(i, rf.at), default)
      [] IsIncomplete(rf) -> incomplete(rf.n)

\* option yielding the default when f is incomplete.
option_default_on_incomplete(i, rf, default) ==
    CASE IsData(rf)       -> ret(rf.rest, rf.val)
      [] IsError(rf)      -> ret(i, default)
      [] IsIncomplete(rf) -> ret(i, default)

\* option(i, f, default), rf being the outcome of f(i.clone()).
option(i, rf, default) ==
    CASE IsData(rf)       -> ret(rf.rest, rf.val)
      [] IsError(rf)      -> ret(i, default)
      [] IsIncomplete(rf) -> incomplete(rf.n)

\* or with commit discipline: a failure of f that consumed tokens is returned.
or_commit(i, rf, G) ==
    CASE IsData(rf)       -> {[out |-> ret(rf.rest, rf.val), g |-> NoCall]}
      [] IsError(rf) /\ Consumed(i, rf) > 0 -> {[out |-> rf, g |-> NoCall]}
      [] IsError(rf) /\ Consumed(i, rf) = 0 -> {[out |-> rg, g |-> Call(i, rg)] : rg \in G}
      [] IsIncomplete(rf) -> {[out |-> incomplete(rf.n), g |-> NoCall]}

\* or(i, f, g), rf being the outcome of f(i.clone()) and G the outcomes g can
\* return on i: each element pairs the result with the outcome of g when g ran.
or(i, rf, G) ==
    CASE IsData(rf)       -> {[out |-> ret(rf.rest, rf.val), g |-> NoCall]}
      [] IsError(rf)      -> {[out |-> rg, g |-> Call(i, rg)] : rg \in G}
      [] IsIncomplete(rf) -> {[out |-> incomplete(rf.n), g |-> NoCall]}

\* matched_by slicing from the wrong end: the span is what is left, not
\* what was matched.
matched_by_remainder(i, rf) ==
    CASE IsData(rf) ->
           LET diff == Len(i.buf) - Len(rf.rest.buf)
               n    == Drop(i.buf, diff)
           IN  ret(rf.rest, <<n, rf.val>>)
      [] IsError(rf)      -> err(replace(i, rf.at), rf.err)
      [] IsIncomplete(rf) -> incomplete(rf.n)

\* matched_by(i, f), rf being the outcome of f(i.clone()).
matched_by(i, rf) ==
    CASE IsData(rf) ->
           LET diff == Len(i.buf) - Len(rf.rest.buf)
               n    == Take(i.buf, diff)
           IN  ret(rf.rest, <<n, rf.val>>)
      [] IsError(rf)      -> err(replace(i, rf.at), rf.err)
      [] IsIncomplete(rf) -> incomplete(rf.n)

\* look_ahead putting the failure at the original view.
look_ahead_resets(i, rf) ==
    CASE IsData(rf)       -> ret(i, rf.val)
      [] IsError(rf)      -> err(i, rf.err)
      [] IsIncomplete(rf) -> incomplete(rf.n)

\* look_ahead(i, f), rf being the outcome of f(i.clone()).
look_ahead(i, rf) ==
    CASE IsData(rf)       -> ret(i, rf.val)
      [] IsError(rf)      -> err(replace(i, rf.at), rf.err)
      [] IsIncomplete(rf) -> incomplete(rf.n)

\* --------------------------------------------------------- bounded repetition

\* The ranges the combinators hand to bounded::many: `..`, `n..` and `n`.
RangeFull == [min |-> 0, bounded |-> FALSE, max |-> 0]
RangeFrom(n) == [min |-> n, bounded |-> FALSE, max |-> 0]
Exactly(n) == [min |-> n, bounded |-> TRUE, max |-> n]

Collecting == {"many", "many1", "count", "sep_by", "sep_by1", "many_till"}
Skipping == {"skip_many", "skip_many1"}
Separated == {"sep_by", "sep_by1"}
Bounded == (Collecting \cup Skipping) \ {"many_till"}

\* The range each combinator passes on.
range(c, num) ==
    CASE c \in {"many", "sep_by", "skip_many", "many_till"} -> RangeFull
      [] c \in {"many1", "sep_by1", "skip_many1"}            -> RangeFrom(1)
      [] c = "count"                                         -> Exactly(num)

\* The value a repetition yields: the collection, or () for skip_many.
value(c, items) == IF c \in Skipping THEN "()" ELSE items

\* max_reached off by one: one more iteration than max.
max_reached_late(b, count) == b.bounded /\ count > b.max

\* Step 1 of the loop: the maximum has been reached.
max_reached(b, count) == b.bounded /\ count >= b.max

\* on_error with commit discipline: a failure that consumed tokens is returned.
on_error_commit(c, s, items, b, count, o) ==
    IF count >= b.min /\ Consumed(s, o) = 0 THEN ret(s, value(c, items)) ELSE o

\* on_error returning every failure.
on_error_propagate(c, s, items, b, count, o) == o

\* The sub-parser failed with the outcome o on the view s, count items in.
on_error(c, s, items, b, count, o) ==
    IF count >= b.min THEN ret(s, value(c, items)) ELSE o

\* on_incomplete not looking at the END_OF_INPUT flag.
on_incomplete_ignores_flag(c, s, items, b, count, o) ==
    IF count >= b.min THEN ret(s, value(c, items)) ELSE incomplete(o.n)

\* on_incomplete failing at the end of the input when min is not met.
on_incomplete_fails(c, s, items, b, count, o) ==
    IF s.eoi
    THEN IF count >= b.min THEN ret(s, value(c, items)) ELSE err(s, <<"Custom", "eof">>)
    ELSE incomplete(o.n)

\* on_incomplete passing every Incomplete on.
on_incomplete_propagate(c, s, items, b, count, o) == incomplete(o.n)

\* The sub-parser returned Incomplete on the view s, count items in.
on_incomplete(c, s, items, b, count, o) ==
    IF count >= b.min /\ s.eoi THEN ret(s, value(c, items)) ELSE incomplete(o.n)

\* The result of a repetition whose sub-parser did not succeed.
end_state(c, s, items, b, count, o) ==
    IF IsError(o) THEN on_error(c, s, items, b, count, o)
    ELSE on_incomplete(c, s, items, b, count, o)

\* r.then(p): p runs on the view r left, failure and Incomplete of r pass.
then(r, P) ==
    IF IsData(r.out)
    THEN {[q |-> r.q, p |-> Call(r.out.rest, o), out |-> o] : o \in Run(P, r.out.rest)}
    ELSE {r}

\* sep_by's first half asking for a separator before the first item too.
sep_always(itm, sep, i) ==
    {[q |-> Call(i, o), p |-> NoCall,
      out |-> IF IsData(o) THEN ret(o.rest, "()") ELSE o] : o \in Run(sep, i)}

\* The first half of sep_by's parser: sep(i).map(|_| ()) once an item has
\* been read, i.ret(()) before.
sep_or_ret(itm, sep, i) ==
    IF itm
    THEN {[q |-> Call(i, o), p |-> NoCall,
           out |-> IF IsData(o) THEN ret(o.rest, "()") ELSE o] : o \in Run(sep, i)}
    ELSE {[q |-> NoCall, p |-> NoCall, out |-> ret(i, "()")]}

\* The closure sep_by and sep_by1 give to bounded::many.
sep_parser(itm, P, sep, i) ==
    UNION {then(r, P) : r \in sep_or_ret(itm, sep, i)}

\* The parser a combinator gives to the repetition, run on the view i.
parser(c, itm, P, Q, i) ==
    IF c \in Separated THEN sep_parser(itm, P, Q, i)
    ELSE {[q |-> NoCall, p |-> Call(i, o), out |-> o] : o \in Run(P, i)}

\* -------------------------------------------------------------------- state

VARIABLES
    pc,     \* "idle", "loop" (inside a repetition) or "done"
    comb,   \* the combinator called
    inp,    \* the view i the combinator was called with
    p,      \* its first sub-parser (f, p)
    q,      \* its second sub-parser (g, sep, end), where it has one
    bnd,    \* the range of a repetition
    s,      \* the repetition's current view
    acc,    \* the values the repetition has collected
    cnt,    \* the number of successful iterations
    calls,  \* the number of invocations of the repetition's parser
    item,   \* sep_by's flag: at least one item has been parsed
    last,   \* the outcome of the last invocation of the repetition's parser
    lastp,  \* the last invocation of p
    lastq,  \* the last invocation of q
    res,    \* the combinator's result
    stalled,\* some iteration succeeded without consuming a token
    data,   \* the bytes the byte source of a Source delivers in all
    top,    \* the top-level parser given to Source::parse
    buffer, \* the Source's backing buffer
    cursor, \* the Source's read cursor: the bytes before it are consumed
    eos,    \* the byte source is known to be exhausted
    out,    \* what the last call of parse returned
    sfrom,  \* the cursor the last call of parse started from
    again   \* the calls of parse made after a terminal outcome

cvars == <<pc, comb, inp, p, q, bnd, s, acc, cnt, calls, item, last, lastp, lastq, res, stalled>>

svars == <<data, top, buffer, cursor, eos, out, sfrom, again>>

vars == <<cvars, svars>>

loopvars == <<bnd, s, acc, cnt, calls, item, last, stalled>>

\* No combinator has been called.
CombIdle ==
    /\ pc = "idle"
    /\ comb = "none"
    /\ inp = new(FALSE, <<>>)
    /\ p = AnyTok
    /\ q = AnyTok
    /\ bnd = RangeFull
    /\ s = new(FALSE, <<>>)
    /\ acc = <<>>
    /\ cnt = 0
    /\ calls = 0
    /\ item = FALSE
    /\ last = NoOutcome
    /\ lastp = NoCall
    /\ lastq = NoCall
    /\ res = NoOutcome
    /\ stalled = FALSE

\* The top-level parsers given to Source::parse.
TopParsers ==
    {[c |-> "many", p |-> Token("a"), q |-> AnyTok, num |-> 0],
     [c |-> "many1", p |-> Token("a"), q |-> AnyTok, num |-> 0],
     [c |-> "sep_by", p |-> AnyTok, q |-> Token(";"), num |-> 0],
     [c |-> "count", p |-> AnyTok, q |-> AnyTok, num |-> 2]}

\* What parse returns.
Value(v, pos) == [tag |-> "Value", val |-> v, pos |-> pos]
ParseError(e, pos) == [tag |-> "ParseError", err |-> e, pos |-> pos]
Retry == [tag |-> "Retry"]
EndOfStream == [tag |-> "EndOfStream"]
Terminal == {"Value", "ParseError", "EndOfStream"}

\* Source::new(byte_source): nothing buffered, nothing known about the end.
SourceNew ==
    /\ buffer = <<>>
    /\ cursor = 0
    /\ eos = FALSE
    /\ out = NoOutcome
    /\ sfrom = 0
    /\ again = 0

\* No Source is in use.
StreamIdle ==
    /\ data = <<>>
    /\ top = [c |-> "many", p |-> Token("a"), q |-> AnyTok, num |-> 0]
    /\ SourceNew

Init == CombIdle /\ StreamIdle

\* A non-repeating combinator c runs f once on i and returns.
Once(c, i, f, g, r, cf, cg) ==
    /\ pc = "idle"
    /\ pc' = "done"
    /\ comb' = c
    /\ inp' = i
    /\ p' = f
    /\ q' = g
    /\ lastp' = cf
    /\ lastq' = cg
    /\ res' = r
    /\ UNCHANGED loopvars
    /\ UNCHANGED svars

CallOption ==
    \E i \in Inputs, f \in ItemParsers :
        \E rf \in Run(f, i) :
            Once("option", i, f, AnyTok, option(i, rf, "default"), Call(i, rf), NoCall)

CallOr ==
    \E i \in Inputs, f \in ItemParsers, g \in OtherParsers :
        \E rf \in Run(f, i) :
            \E r \in or(i, rf, Run(g, i)) :
                Once("or", i, f, g, r.out, Call(i, rf), r.g)

CallMatchedBy ==
    \E i \in Inputs, f \in ItemParsers :
        \E rf \in Run(f, i) :
            Once("matched_by", i, f, AnyTok, matched_by(i, rf), Call(i, rf), NoCall)

CallLookAhead ==
    \E i \in Inputs, f \in ItemParsers :
        \E rf \in Run(f, i) :
            Once("look_ahead", i, f, AnyTok, look_ahead(i, rf), Call(i, rf), NoCall)

\* A repetition c is called on i: nothing has run yet.
Enter(c, i, f, g, num) ==
    /\ pc = "idle"
    /\ pc' = "loop"
    /\ comb' = c
    /\ inp' = i
    /\ p' = f
    /\ q' = g
    /\ bnd' = range(c, num)
    /\ s' = i
    /\ UNCHANGED <<acc, cnt, calls, item, last, lastp, lastq, res, stalled>>
    /\ UNCHANGED svars

CallMany == \E i \in Inputs, f \in ItemParsers : Enter("many", i, f, AnyTok, 0)

CallMany1 == \E i \in Inputs, f \in ItemParsers : Enter("many1", i, f, AnyTok, 0)

CallCount ==
    \E i \in Inputs, f \in ItemParsers, num \in 0..MaxCount : Enter("count", i, f, AnyTok, num)

CallSkipMany == \E i \in Inputs, f \in ItemParsers : Enter("skip_many", i, f, AnyTok, 0)

CallSkipMany1 == \E i \in Inputs, f \in ItemParsers : Enter("skip_many1", i, f, AnyTok, 0)

CallSepBy ==
    \E i \in Inputs, f \in ItemParsers, g \in OtherParsers : Enter("sep_by", i, f, g, 0)

CallSepBy1 ==
    \E i \in Inputs, f \in ItemParsers, g \in OtherParsers : Enter("sep_by1", i, f, g, 0)

CallManyTill ==
    \E i \in Inputs, f \in ItemParsers, g \in OtherParsers : Enter("many_till", i, f, g, 0)

\* next_view staying on the view the parser started on.
next_view_stays(v, o) == v

\* The view the loop goes on with after the success o of its parser on v.
next_view(v, o) == o.rest

\* The tokens the repetition has advanced over.
Advanced == Len(inp.buf) - Len(s.buf)

\* The run is followed: fewer than MaxIter invocations did not advance.
CanStep == calls - Advanced < MaxIter

\* The repetition returns r.
Return(r) ==
    /\ pc' = "done"
    /\ res' = r

\* The repetition stops at its maximum without running its parser again.
StopAtMax ==
    /\ pc = "loop"
    /\ comb \in Bounded
    /\ max_reached(bnd, cnt)
    /\ Return(ret(s, value(comb, acc)))
    /\ UNCHANGED <<comb, inp, p, q, loopvars, lastp, lastq>>
    /\ UNCHANGED svars

\* One iteration of the repetition: its parser runs on the current view.
Iterate ==
    /\ pc = "loop"
    /\ comb \in Bounded
    /\ ~max_reached(bnd, cnt)
    /\ CanStep
    /\ \E r \in parser(comb, item, p, q, s) :
        /\ calls' = calls + 1
        /\ last' = r.out
        /\ lastp' = r.p
        /\ lastq' = r.q
        /\ IF IsData(r.out)
           THEN /\ s' = next_view(s, r.out)
                /\ acc' = IF comb \in Skipping THEN acc ELSE Append(acc, r.out.val)
                /\ cnt' = cnt + 1
                /\ item' = (comb \in Separated)
                /\ stalled' = (stalled \/ r.out.rest = s)
                /\ UNCHANGED <<pc, res>>
           ELSE /\ Return(end_state(comb, s, acc, bnd, cnt, r.out))
                /\ UNCHANGED <<s, acc, cnt, item, stalled>>
    /\ UNCHANGED <<comb, inp, p, q, bnd>>
    /\ UNCHANGED svars

\* till_step putting the value of end in the collection.
till_step_keeps_end(view, items, re, rp) ==
    CASE IsData(re)       -> ret(re.rest, Append(items, re.val))
      [] IsIncomplete(re) -> incomplete(re.n)
      [] IsError(re) /\ IsData(rp)       -> [tag |-> "Next"]
      [] IsError(re) /\ IsError(rp)      -> rp
      [] IsError(re) /\ IsIncomplete(rp) -> incomplete(rp.n)

\* till_step ending like many when p fails: Success with the items so far.
till_step_swallows(view, items, re, rp) ==
    CASE IsData(re)       -> ret(re.rest, items)
      [] IsIncomplete(re) -> incomplete(re.n)
      [] IsError(re) /\ IsData(rp)       -> [tag |-> "Next"]
      [] IsError(re) /\ IsError(rp)      -> ret(view, items)
      [] IsError(re) /\ IsIncomplete(rp) -> incomplete(rp.n)

\* What many_till does once end and, when end failed, p have run on s:
\* "go on" with p's value, or the result.
till_step(view, items, re, rp) ==
    CASE IsData(re)       -> ret(re.rest, items)
      [] IsIncomplete(re) -> incomplete(re.n)
      [] IsError(re) /\ IsData(rp)       -> [tag |-> "Next"]
      [] IsError(re) /\ IsError(rp)      -> rp
      [] IsError(re) /\ IsIncomplete(rp) -> incomplete(rp.n)

\* One iteration of many_till: end runs first, p only when end failed.
TillIterate ==
    /\ pc = "loop"
    /\ comb = "many_till"
    /\ CanStep
    /\ \E re \in Run(q, s) :
        \E rp \in (IF IsError(re) THEN Run(p, s) ELSE {NoOutcome}) :
            LET r == till_step(s, acc, re, rp)
            IN  /\ calls' = calls + 1
                /\ lastq' = Call(s, re)
                /\ lastp' = IF IsError(re) THEN Call(s, rp) ELSE lastp
                /\ last' = IF IsError(re) THEN rp ELSE last
                /\ IF r.tag = "Next"
                   THEN /\ s' = next_view(s, rp)
                        /\ acc' = Append(acc, rp.val)
                        /\ cnt' = cnt + 1
                        /\ stalled' = (stalled \/ rp.rest = s)
                        /\ UNCHANGED <<pc, res>>
                   ELSE /\ Return(r)
                        /\ UNCHANGED <<s, acc, cnt, stalled>>
    /\ UNCHANGED <<comb, inp, p, q, bnd, item>>
    /\ UNCHANGED svars

Next ==
    \/ CallOption
    \/ CallOr
    \/ CallMatchedBy
    \/ CallLookAhead
    \/ CallMany
    \/ CallMany1
    \/ CallCount
    \/ CallSkipMany
    \/ CallSkipMany1
    \/ CallSepBy
    \/ CallSepBy1
    \/ CallManyTill
    \/ StopAtMax
    \/ Iterate
    \/ TillIterate

Spec == Init /\ [][Next]_vars

\* ---------------------------------------------------------- streaming driver

\* A whole call of a repetition with the deterministic sub-parsers P and Q:
\* the loop of StopAtMax and Iterate run to its result.
RECURSIVE repeat(_, _, _, _, _, _, _, _)
repeat(c, b, P, Q, v, items, count, itm) ==
    IF max_reached(b, count) THEN ret(v, value(c, items))
    ELSE LET r == CHOOSE x \in parser(c, itm, P, Q, v) : TRUE
         IN  IF IsData(r.out)
             THEN repeat(c, b, P, Q, next_view(v, r.out),
                         IF c \in Skipping THEN items ELSE Append(items, r.out.val),
                         count + 1, c \in Separated)
             ELSE end_state(c, v, items, b, count, r.out)

\* The top-level parser t run on the view v.
run_top(t, v) == repeat(t.c, range(t.c, t.num), t.p, t.q, v, <<>>, 0, FALSE)

\* The view parse gives the parser: the buffer from the cursor on, with the
\* END_OF_INPUT flag set iff the byte source is known to be exhausted.
source_view == new(eos, Drop(buffer, cursor))

\* The terminal outcome for the parser's result o on a view of n tokens that
\* starts at the position start.
final(o, start, n) ==
    CASE IsData(o)       -> Value(o.val, start + n - Len(o.rest.buf))
      [] IsError(o)      -> ParseError(o.err, start + n - Len(o.at))
      [] IsIncomplete(o) -> ParseError(<<"Incomplete">>, start)

\* The sizes a read can have: nothing once the byte source is at its end,
\* else any non-empty chunk of what is left.
read_sizes ==
    IF Len(buffer) = Len(data) THEN {0} ELSE 1..(Len(data) - Len(buffer))

\* A read that sets the retry signal also when it delivered nothing.
read_always_retries(k) == [out |-> Retry, eos |-> FALSE]

\* What a read of k bytes means: end of stream when it delivered nothing,
\* else the retry signal.
read_result(k) ==
    IF k = 0 THEN [out |-> EndOfStream, eos |-> TRUE]
    ELSE [out |-> Retry, eos |-> FALSE]

\* A buffer that keeps only what the read delivered.
grow_replaces(b, chunk) == chunk

\* The buffer with the bytes of a read appended.
grow(b, chunk) == b \o chunk

\* A caller calls parse at the start and after every Retry; after a terminal
\* outcome it may call again for the next value (MaxAgain times) or stop, as
\* the loop of main does on EndOfStream.
MayParse == out.tag \in {"None", "Retry"} \/ again < MaxAgain

\* One call of source.parse(top).
Parse ==
    /\ MayParse
    /\ LET v == source_view
           o == run_top(top, v)
       IN  IF IsIncomplete(o) /\ ~eos
           THEN \E k \in read_sizes :
                    /\ buffer' = grow(buffer, SubSeq(data, Len(buffer) + 1, Len(buffer) + k))
                    /\ eos' = read_result(k).eos
                    /\ out' = read_result(k).out
                    /\ UNCHANGED cursor
           ELSE /\ out' = final(o, cursor, Len(v.buf))
                /\ cursor' = IF IsData(o) THEN Len(buffer) - Len(o.rest.buf) ELSE cursor
                /\ UNCHANGED <<buffer, eos>>
    /\ sfrom' = cursor
    /\ again' = IF out.tag \in Terminal THEN again + 1 ELSE again
    /\ UNCHANGED <<data, top>>
    /\ UNCHANGED cvars

StreamInit ==
    /\ CombIdle
    /\ data \in Buffers
    /\ top \in TopParsers
    /\ SourceNew

StreamNext == Parse

StreamSpec == StreamInit /\ [][StreamNext]_vars

\* The caller calls parse again after every Retry.
StreamFair == StreamSpec /\ WF_vars(Parse)

\* ------------------------------------------------------------------- claims

Done == pc = "done"

Repetitions == Collecting \cup Skipping

\* The last invocation of p failed after consuming at least one token.
PFailedCommitted == IsError(lastp.out) /\ Consumed(lastp.from, lastp.out) >= 1

\* The last invocation of p failed without consuming a token.
PFailedEmpty == IsError(lastp.out) /\ Consumed(lastp.from, lastp.out) = 0

\* C1 as stated: in every repetition, when an invocation of the sub-parser
\* fails after consuming at least one token, the combinator returns that
\* failure.
C1_CommitLaw ==
    (Done /\ comb \in Repetitions /\ PFailedCommitted)
        => (IsError(res) /\ res.at = lastp.out.at /\ res.err = lastp.out.err)

\* C1 amended: a failure of the sub-parser after consuming at least one token
\* is returned, position and diagnostic unchanged, by many_till and by a
\* bounded repetition that has fewer than min items; a bounded repetition that
\* has min items returns Success with the items collected so far and the view
\* the failing iteration started on.
C1_FailureBelowMinOnly ==
    (Done /\ comb \in Repetitions /\ PFailedCommitted)
        => IF comb = "many_till" \/ cnt < bnd.min
           THEN IsError(res) /\ res.at = lastp.out.at /\ res.err = lastp.out.err
           ELSE /\ IsData(res)
                /\ res.val = value(comb, acc)
                /\ res.rest = s
                /\ s = (IF lastq = NoCall THEN lastp.from ELSE lastq.from)

\* many has collected an item, the next invocation fails after consuming a
\* token, and many returns Success.
C1_Witness ==
    /\ Done /\ comb = "many" /\ PFailedCommitted
    /\ cnt >= 1 /\ IsData(res) /\ Len(res.val) = cnt

\* C2 as stated: when f fails after consuming at least one token, or and
\* option return f's failure, g is not run and default is not returned.
C2_CommitLaw ==
    (Done /\ comb \in {"or", "option"} /\ PFailedCommitted)
        => (res = lastp.out /\ lastq = NoCall)

\* C2 amended: when f fails after consuming at least one token, or runs g on
\* the original view i and returns g's outcome, and option returns
\* Success(default) with the original view i.
C2_BacktracksAfterConsuming ==
    (Done /\ comb \in {"or", "option"} /\ PFailedCommitted)
        => IF comb = "or"
           THEN lastq.out # NoOutcome /\ lastq.from = inp /\ res = lastq.out
           ELSE res = ret(inp, "default")

\* f consumed a token and failed, g ran on the original view and succeeded.
C2_Witness ==
    /\ Done /\ comb = "or" /\ PFailedCommitted
    /\ lastq.from = inp /\ IsData(lastq.out) /\ IsData(res)

\* C3: when f fails without consuming, or returns the outcome of g on the
\* original view i and option returns Success(default) with the view i; when
\* f succeeds both return f's value with f's view and g is not run.
C3_Fallback ==
    (Done /\ comb \in {"or", "option"})
        => /\ (PFailedEmpty /\ comb = "or")
                => (lastq.out # NoOutcome /\ lastq.from = inp /\ res = lastq.out)
           /\ (PFailedEmpty /\ comb = "option") => res = ret(inp, "default")
           /\ IsData(lastp.out)
                => (res = ret(lastp.out.rest, lastp.out.val) /\ lastq = NoCall)

\* Both parsers of or failed, f without consuming: the result is g's error.
C3_Witness ==
    /\ Done /\ comb = "or" /\ PFailedEmpty
    /\ IsError(lastq.out) /\ res = lastq.out /\ res.err = <<"Custom", "g">>

\* C4: a bounded repetition never runs its parser more than max times and
\* never returns Success with fewer than min matches; count(i, num, p) on
\* success has collected exactly num items and leaves the tokens after them.
C4_Bound ==
    (comb \in Bounded)
        => /\ bnd.bounded => calls <= bnd.max
           /\ (Done /\ IsData(res)) => cnt >= bnd.min
           /\ (Done /\ IsData(res) /\ comb = "count")
                => /\ Len(res.val) = bnd.max
                   /\ cnt = bnd.max
                   /\ res.rest = s
                   /\ p.k \in {"token", "any"} => res.rest.buf = Drop(inp.buf, bnd.max)

\* count(i, 2, p) has taken two items of a three token input and returns
\* them, the third token left in the remaining input.
C4_Witness ==
    /\ Done /\ comb = "count" /\ bnd.max = 2 /\ p = Token("a")
    /\ inp.buf = <<"a", "a", "a">>
    /\ IsData(res) /\ res.val = <<"a", "a">> /\ res.rest.buf = <<"a">> /\ calls = 2

\* C5: many never returns Failure.
C5_ManyNeverFails ==
    (Done /\ comb = "many") => (IsData(res) \/ IsIncomplete(res))

\* many's parser fails on the first invocation after consuming every token
\* of a non-empty input: many returns Success with no items.
C5_Witness ==
    /\ Done /\ comb = "many" /\ PFailedCommitted /\ lastp.out.at = <<>>
    /\ cnt = 0 /\ IsData(res) /\ res.val = <<>> /\ res.rest = inp

\* C6: when the parser of a bounded repetition returns Incomplete(hint) on a
\* view whose END_OF_INPUT flag is not set, the repetition returns
\* Incomplete(hint), whatever it has collected.
C6_IncompletePropagates ==
    (Done /\ comb \in Bounded /\ IsIncomplete(last) /\ ~s.eoi)
        => res = incomplete(last.n)

\* many(token 'a') on "aa" without the flag: two items collected, min met,
\* and the result is Incomplete(1).
C6_Witness ==
    /\ Done /\ comb = "many" /\ p = Token("a") /\ inp = new(FALSE, <<"a", "a">>)
    /\ cnt = 2 /\ res = incomplete(1)

\* C7 as stated: when the parser returns Incomplete on a view whose
\* END_OF_INPUT flag is set, the repetition returns Success with the items
\* collected and the view before the attempt if count >= min, and a Failure
\* if count < min.
C7_IncompleteAtEndAsFailure ==
    (Done /\ comb \in Bounded /\ IsIncomplete(last) /\ s.eoi)
        => IF cnt >= bnd.min
           THEN IsData(res) /\ res.val = value(comb, acc) /\ res.rest = s
           ELSE IsError(res)

\* C7 amended: with the flag set and count >= min the result is Success with
\* the items collected and the view before the incomplete attempt; with
\* count < min the result is Incomplete with the parser's hint.
C7_IncompleteAtEnd ==
    (Done /\ comb \in Bounded /\ IsIncomplete(last) /\ s.eoi)
        => IF cnt >= bnd.min
           THEN IsData(res) /\ res.val = value(comb, acc) /\ res.rest = s
           ELSE res = incomplete(last.n)

\* many1(token 'a') on the empty END_OF_INPUT view returns Incomplete(1).
C7_Witness ==
    /\ Done /\ comb = "many1" /\ p = Token("a") /\ inp = new(TRUE, <<>>)
    /\ cnt = 0 /\ res = incomplete(1)

\* C8 as stated: look_ahead returns the original view with p's value on
\* Success, and p's diagnostic positioned at the original view on Failure.
C8_PositionReset ==
    (Done /\ comb = "look_ahead")
        => /\ IsData(lastp.out) => res = ret(inp, lastp.out.val)
           /\ IsError(lastp.out)
                => (IsError(res) /\ res.at = inp.buf /\ res.err = lastp.out.err)

\* C8 amended: on Success look_ahead returns the original view with p's
\* value; on Failure it returns p's diagnostic positioned where p failed.
C8_PositionKeptOnSuccess ==
    (Done /\ comb = "look_ahead")
        => /\ IsData(lastp.out) => res = ret(inp, lastp.out.val)
           /\ IsError(lastp.out)
                => (IsError(res) /\ res.at = lastp.out.at /\ res.err = lastp.out.err)

\* p consumed a token and failed: the failure look_ahead returns is
\* positioned after that token.
C8_Witness ==
    /\ Done /\ comb = "look_ahead" /\ PFailedCommitted
    /\ IsError(res) /\ res.at # inp.buf /\ Len(res.at) < Len(inp.buf)

\* C9: when p succeeds, matched_by returns p's value with the span of the
\* tokens p consumed and p's remaining view; span and remaining input make
\* up the original input.
C9_MatchedSpan ==
    (Done /\ comb = "matched_by" /\ IsData(lastp.out))
        => /\ IsData(res)
           /\ res.rest = lastp.out.rest
           /\ res.val[2] = lastp.out.val
           /\ Len(res.val[1]) = Len(inp.buf) - Len(res.rest.buf)
           /\ res.val[1] = Take(inp.buf, Len(res.val[1]))
           /\ res.val[1] \o res.rest.buf = inp.buf

\* p consumed two tokens of three: the span is those two tokens.
C9_Witness ==
    /\ Done /\ comb = "matched_by" /\ IsData(lastp.out)
    /\ Len(inp.buf) = 3 /\ Len(res.rest.buf) = 1
    /\ res.val[1] = Take(inp.buf, 2)

\* The last iteration of a sep_by matched a separator and then ran the item
\* parser, which did not succeed.
TrailingSeparator ==
    /\ comb \in Separated
    /\ IsData(lastq.out)
    /\ lastp # NoCall
    /\ ~IsData(lastp.out)

\* C10: on an END_OF_INPUT view, when a separator matches and no item follows
\* it, sep_by and sep_by1 return Success with the items collected so far and
\* the view that starts at that separator.
C10_TrailingSeparator ==
    (Done /\ inp.eoi /\ TrailingSeparator)
        => /\ IsData(res)
           /\ res.val = acc
           /\ res.rest = lastq.from
           /\ Len(res.val) = cnt

\* sep_by(any, token ';') on "a;" with the flag set: [a], remaining ";".
C10_Witness ==
    /\ Done /\ comb = "sep_by" /\ p = AnyTok /\ q = Token(";")
    /\ inp = new(TRUE, <<"a", ";">>)
    /\ TrailingSeparator
    /\ res = ret(new(TRUE, <<";">>), <<"a">>)

\* C11: many_till tries end before p in every iteration, and as soon as end
\* succeeds it returns Success with the values p produced before, nothing
\* from end, and the view end left.
TillEnded ==
    (Done /\ comb = "many_till" /\ IsData(lastq.out))
        => /\ res = ret(lastq.out.rest, acc)
           /\ Len(acc) = cnt
           /\ lastq.from = s
           /\ q = Free("g") => \A k \in 1..Len(acc) : acc[k] # "g"

\* One iteration of many_till: end runs on the view the iteration starts on;
\* p runs, on the same view, only when end failed.
TillStep ==
    (comb = "many_till" /\ pc = "loop" /\ calls' = calls + 1)
        => /\ lastq'.from = s
           /\ lastq'.out # NoOutcome
           /\ IsError(lastq'.out) => (lastp'.from = s /\ lastp'.out # NoOutcome)
           /\ ~IsError(lastq'.out) => (lastp' = lastp /\ pc' = "done")
           /\ IsData(lastq'.out) => res' = ret(lastq'.out.rest, acc)

C11_EndStops == []TillEnded /\ [][TillStep]_vars

\* many_till(any, token ';') on "a;a": [a], remaining "a".
C11_Witness ==
    /\ Done /\ comb = "many_till" /\ p = AnyTok /\ q = Token(";")
    /\ inp.buf = <<"a", ";", "a">>
    /\ res = ret(replace(inp, <<"a">>), <<"a">>)

\* C12: when the first sub-parser of or, option, look_ahead or matched_by
\* returns Incomplete(n), the combinator returns Incomplete(n); g is not run
\* and the default is not returned.
C12_IncompleteShortCircuits ==
    (Done /\ comb \in {"or", "option", "look_ahead", "matched_by"} /\ IsIncomplete(lastp.out))
        => (res = incomplete(lastp.out.n) /\ lastq = NoCall)

\* option's parser asked for two more tokens: option returns Incomplete(2).
C12_Witness ==
    /\ Done /\ comb = "option" /\ lastp.out = incomplete(2) /\ res = incomplete(2)

\* C16: a bounded repetition that has fewer than min items returns
\* Incomplete(h) when its parser returns Incomplete(h), with the
\* END_OF_INPUT flag set or not.
C16_IncompleteBelowMin ==
    (Done /\ comb \in Bounded /\ IsIncomplete(last) /\ cnt < bnd.min)
        => res = incomplete(last.n)

\* count(i, 2, token 'a') on "a" with the flag set returns Incomplete(1).
C16_Witness ==
    /\ Done /\ comb = "count" /\ bnd.min = 2 /\ p = Token("a")
    /\ inp = new(TRUE, <<"a">>) /\ cnt = 1 /\ res = incomplete(1)

\* One iteration of sep_by's parser: no separator before the first item, one
\* separator match directly before every later item, and a separator that
\* fails without consuming ends the repetition after the last item.
SepStep ==
    (comb \in Separated /\ pc = "loop" /\ calls' = calls + 1)
        => /\ ~item => (lastq' = NoCall /\ lastp'.from = s)
           /\ item => /\ lastq'.from = s
                      /\ lastq'.out # NoOutcome
                      /\ lastp' # NoCall
                            => (IsData(lastq'.out) /\ lastp'.from = lastq'.out.rest)
           /\ cnt' = cnt + 1
                => /\ IsData(lastp'.out)
                   /\ s' = lastp'.out.rest
                   /\ acc' = Append(acc, lastp'.out.val)
           /\ (item /\ IsError(lastq'.out) /\ Consumed(s, lastq'.out) = 0)
                => (pc' = "done" /\ res' = ret(s, acc))

\* What sep_by has advanced over: nothing without an item, else the items
\* and one separator less than items (one token each for token and any).
SepShape ==
    /\ (comb \in Separated /\ cnt = 0) => Advanced = 0
    /\ (comb \in Separated /\ p.k # "free" /\ q.k # "free" /\ cnt > 0)
            => /\ Advanced = 2 * cnt - 1
               /\ \A k \in 1..(cnt - 1) : inp.buf[2 * k] = q.c
    /\ (comb \in Separated /\ Done /\ IsData(res)) => (res.rest = s /\ res.val = acc)

\* C17: sep_by and sep_by1 alternate item and separator.
C17_Alternation == []SepShape /\ [][SepStep]_vars

\* sep_by(any, token ';') on "a;a" with the flag set: two items, one
\* separator, everything consumed.
C17_Witness ==
    /\ Done /\ comb = "sep_by" /\ p = AnyTok /\ q = Token(";")
    /\ inp = new(TRUE, <<"a", ";", "a">>)
    /\ res = ret(new(TRUE, <<>>), <<"a", "a">>)

\* C18: when end fails and p then fails, many_till returns p's failure,
\* position and diagnostic unchanged, whatever p consumed and however many
\* items are collected; many_till returns Success only when end succeeded.
C18_TillPropagates ==
    (Done /\ comb = "many_till")
        => /\ (IsError(lastq.out) /\ IsError(lastp.out))
                => (IsError(res) /\ res.at = lastp.out.at /\ res.err = lastp.out.err)
           /\ IsData(res) => IsData(lastq.out)

\* many_till has collected an item, end fails and p fails without consuming.
C18_Witness ==
    /\ Done /\ comb = "many_till" /\ cnt >= 1
    /\ IsError(lastq.out) /\ PFailedEmpty /\ lastp.from = s
    /\ IsError(res) /\ res.at = s.buf

\* C19: while every successful iteration consumed a token, a repetition
\* without a maximum has made at most one iteration per token it advanced
\* over, so at most one invocation more than the input has tokens, and it is
\* never cut off before it returns.
C19_Terminates ==
    (comb \in (Repetitions \ {"count"}) /\ ~stalled)
        => /\ cnt <= Advanced
           /\ calls <= cnt + 1
           /\ calls <= Len(inp.buf) + 1
           /\ pc = "loop" => (calls = cnt /\ CanStep)
           /\ pc = "done" => calls >= 1

\* many(token 'a') on "aaa" with the flag set returns after four invocations.
C19_Witness ==
    /\ Done /\ comb = "many" /\ p = Token("a") /\ inp = new(TRUE, <<"a", "a", "a">>)
    /\ calls = 4 /\ cnt = 3 /\ IsData(res) /\ res.rest.buf = <<>>

\* ------------------------------------------------- claims: streaming driver

\* The parser run once on all bytes from the position start on, with the
\* END_OF_INPUT flag set.
batch(start) ==
    LET v == new(TRUE, Drop(data, start))
    IN  final(run_top(top, v), start, Len(v.buf))

IncompleteNow == IsIncomplete(run_top(top, source_view))

\* The buffer grew, and only by bytes appended to it.
AppendedOnly ==
    /\ Len(buffer') > Len(buffer)
    /\ Take(buffer', Len(buffer)) = buffer

\* The next call runs the same parser from the same position.
SameAttempt == cursor' = cursor /\ top' = top /\ sfrom' = cursor

BufferIsPrefix ==
    /\ Len(buffer) <= Len(data)
    /\ buffer = Take(data, Len(buffer))
    /\ cursor \in 0..Len(buffer)

\* One reaction of parse to Incomplete.
ReactionStep ==
    IncompleteNow =>
        IF eos THEN out'.tag = "ParseError" /\ buffer' = buffer /\ eos'
        ELSE IF buffer = data
             THEN out' = EndOfStream /\ eos' /\ buffer' = buffer /\ SameAttempt
             ELSE out' = Retry /\ ~eos' /\ AppendedOnly /\ SameAttempt

AfterEndOfStream == eos /\ again >= 1

C15_RetryEnds == (out = Retry) ~> (out.tag \in Terminal)

\* The first attempt ended with a value after at least one Retry.
C15_Witness ==
    /\ out.tag = "Value" /\ again = 0 /\ sfrom = 0 /\ Len(buffer) >= 2

====
